---- MODULE Spec2Model ----
(***************************************************************************)
(* Model of the manifest engine of preserv (src/integrity.py):             *)
(* ArchiveIntegrityChecker.generate_manifest / verify_integrity over a     *)
(* live file tree, the manifest CSV file and the config JSON file, with    *)
(* get_manifest_stats, and of the worker threads that the buttons of       *)
(* PreservGUI (src/gui.py) start.                                          *)
(*                                                                         *)
(* Time: datetime.now() is modelled by the logical counter clock; every    *)
(* stamp taken inside one call reads the same tick and the tick advances   *)
(* when the call returns.  st_mtime (a float) is modelled by an integer    *)
(* number of seconds; its CSV text is the float repr ("1.0").              *)
(***************************************************************************)
EXTENDS Integers, Sequences, FiniteSets, TLC

\* ---------------------------------------------------------------- bounds
MaxClock == 2       \* number of calls that take a time stamp
MaxRows == 3        \* rows of a manifest.csv that the program did not write
MaxThreads == 2     \* worker threads the GUI starts

\* ------------------------------------------------------------ the domain
Paths == {"a.txt", "b.txt"}
\* os.walk enumerates the directory in one fixed listing order
WalkOrder == <<"a.txt", "b.txt">>
Contents == {"x", "y", "zz"}
\* st_mtime values; the code only compares them for equality
Mtimes == {1, 2}

\* archive roots: a directory, a regular file, a path that does not exist
ArchiveDir == "archive"
ArchiveFile == "afile"
ArchiveGone == "nodir"
\* "" stands for None / empty string: both are falsy in `if archive_path:`
NoPath == ""
RootArgs == {NoPath, ArchiveDir, ArchiveFile, ArchiveGone}

\* st_size of a file with the given content
st_size(c) == CASE c = "x" -> 1 [] c = "y" -> 1 [] c = "zz" -> 2

\* hashlib.sha256(content).hexdigest()
sha256(c) ==
    CASE c = "x"  -> "2d711642b726b04401627ca9fbac32f5c8530fb1903cc4db02258717921a4881"
      [] c = "y"  -> "a1fce4363854ff888cff4b8e7875d600c2682390412a8cf79b37d0b11148b0fa"
      [] c = "zz" -> "4a60bf7d4bc1e485744cf7e8d0860524752fca1ce42331be7c439fd23043f151"

\* datetime.now().isoformat() at logical time t
isoformat(t) == "2024-01-0" \o ToString(t) \o "T00:00:00"

VARIABLES
    tree,           \* live files under ArchiveDir: path -> [content, mtime]
    manifest_file,  \* manifest.csv: [exists, rows]
    config_file,    \* config.json: [exists, data]
    archive_path,   \* self.archive_path
    config,         \* self.config
    clock,          \* logical time read by datetime.now()
    call,           \* the call that returned last: [op, add_new_files]
    ret,            \* its return value
    loaded,         \* verify_integrity: `manifest` as returned by _load_manifest
    manifest,       \* the local `manifest` when the call returned
    log,            \* what the call logged: hash calls, hash/stat errors,
                    \* the files whose save failed
    prior,          \* history: the keys of manifest.csv when the call started
    hist,           \* history (SpecScenario only): who wrote manifest.csv last,
                    \* which paths changed in the tree since then, and the
                    \* call that returned just before the last one
    gui             \* PreservGUI (SpecGui only): the folder chosen, the state
                    \* of the two buttons, the worker threads started

vars == <<tree, manifest_file, config_file, archive_path, config, clock,
          call, ret, loaded, manifest, log, prior, hist, gui>>

\* ----------------------------------------------------- python dict (ordered)
EmptyDict == [keys |-> <<>>, val |-> <<>>]

Keys(d) == {d.keys[i] : i \in 1..Len(d.keys)}

DictSet(d, k, v) ==
    [keys |-> IF k \in Keys(d) THEN d.keys ELSE Append(d.keys, k),
     val  |-> [x \in Keys(d) \cup {k} |-> IF x = k THEN v ELSE d.val[x]]]

\* the elements of a list
Elems(s) == {s[i] : i \in 1..Len(s)}

\* ------------------------------------------------------------- file system
\* os.path.exists(self.archive_path)
RootExists(root) == root \in {ArchiveDir, ArchiveFile}

\* the files os.walk(root) yields, in listing order; a root that is not a
\* directory yields nothing
RECURSIVE WalkFrom(_, _, _)
WalkFrom(root, t, i) ==
    IF i > Len(WalkOrder) THEN <<>>
    ELSE IF root = ArchiveDir /\ WalkOrder[i] \in DOMAIN t
         THEN <<WalkOrder[i]>> \o WalkFrom(root, t, i + 1)
         ELSE WalkFrom(root, t, i + 1)

os_walk(root, t) == WalkFrom(root, t, 1)

\* os.path.exists(os.path.join(root, p))
PathExists(root, t, p) == root = ArchiveDir /\ p \in DOMAIN t

\* self._calculate_file_hash: "" when the read raises
_calculate_file_hash(root, t, p, hashFail) ==
    IF PathExists(root, t, p) /\ p \notin hashFail
    THEN sha256(t[p].content)
    ELSE ""

\* self._get_file_info: (hash, size, mtime), ("", 0, 0) when os.stat raises
_get_file_info(root, t, p, statFail, hashFail) ==
    IF PathExists(root, t, p) /\ p \notin statFail
    THEN [hash |-> _calculate_file_hash(root, t, p, hashFail),
          size |-> st_size(t[p].content),
          mtime |-> t[p].mtime]
    ELSE [hash |-> "", size |-> 0, mtime |-> 0]

\* ------------------------------------------------------------ manifest.csv
\* str(int) and str(float) as csv.DictWriter writes them
IntStr(n) == ToString(n)
FloatStr(m) == ToString(m) \o ".0"

\* the numbers that occur as a size or a modification time
NumRange == 0..4

\* int(s) succeeds
IsInt(s) == \E n \in NumRange : IntStr(n) = s
ParseInt(s) == CHOOSE n \in NumRange : IntStr(n) = s

\* float(s) succeeds: "1.0" and "1" both parse
IsFloat(s) == \E n \in NumRange : s \in {FloatStr(n), IntStr(n)}
ParseFloat(s) == CHOOSE n \in NumRange : s \in {FloatStr(n), IntStr(n)}

\* csv.DictReader gives None for a field the line does not have
restval == "None"

\* mutant: the size and modified_time columns are written swapped
FormatRow_swapped(p, info) ==
    [file_path |-> p,
     checksum |-> info.checksum,
     size |-> FloatStr(info.modified_time),
     modified_time |-> IntStr(info.size),
     date_generated |-> IF info.date_generated = restval
                        THEN ""
                        ELSE info.date_generated]

\* one csv row of the manifest; the csv writer writes None as the empty text
FormatRow(p, info) ==
    [file_path |-> p,
     checksum |-> info.checksum,
     size |-> IntStr(info.size),
     modified_time |-> FloatStr(info.modified_time),
     date_generated |-> IF info.date_generated = restval
                        THEN ""
                        ELSE info.date_generated]

RowParses(row) == IsInt(row.size) /\ IsFloat(row.modified_time)

ParseRow(row) ==
    [checksum |-> row.checksum,
     size |-> ParseInt(row.size),
     modified_time |-> ParseFloat(row.modified_time),
     date_generated |-> row.date_generated]

\* the loop of _load_manifest: the try block encloses the loop, so the first
\* row that raises ends the load with what was read so far
RECURSIVE LoadRows(_, _, _)
LoadRows(rows, i, d) ==
    IF i > Len(rows) THEN d
    ELSE IF ~RowParses(rows[i]) THEN d
    ELSE LoadRows(rows, i + 1, DictSet(d, rows[i].file_path, ParseRow(rows[i])))

_load_manifest(mf) ==
    IF mf.exists THEN LoadRows(mf.rows, 1, EmptyDict) ELSE EmptyDict

\* mutant: the loop over the items stops one item early
_save_manifest_skip_last(mf, d, writeOk) ==
    IF writeOk
    THEN [exists |-> TRUE,
          rows |-> [i \in 1..(Len(d.keys) - 1) |->
                      FormatRow(d.keys[i], d.val[d.keys[i]])]]
    ELSE mf

\* mutant: the file is opened in append mode
_save_manifest_append(mf, d, writeOk) ==
    IF writeOk
    THEN [exists |-> TRUE,
          rows |-> mf.rows \o
                   [i \in 1..Len(d.keys) |-> FormatRow(d.keys[i], d.val[d.keys[i]])]]
    ELSE mf

\* _save_manifest: open(..., 'w') replaces the file by header + one row per
\* item; when the open raises the exception is logged and the file stays
_save_manifest(mf, d, writeOk) ==
    IF writeOk
    THEN [exists |-> TRUE,
          rows |-> [i \in 1..Len(d.keys) |-> FormatRow(d.keys[i], d.val[d.keys[i]])]]
    ELSE mf

\* _save_config
_save_config(cf, c, writeOk) ==
    IF writeOk THEN [exists |-> TRUE, data |-> c] ELSE cf

\* lines 49-50 and 108-109: the saves whose exception is caught and logged
SaveErrors(saved, writeOk) == IF writeOk THEN {} ELSE saved

\* ------------------------------------------------------ python-side values
\* _load_config with no config.json
DefaultConfig == [archive_path |-> "", last_run |-> "None"]

NoCall == [op |-> "none", add_new_files |-> FALSE]
EmptyResults == [ok |-> <<>>, modified |-> <<>>, missing |-> <<>>,
                 new |-> <<>>, errors |-> <<>>]
NoRet == [success |-> FALSE, message |-> "", total_files |-> 0,
          processed_files |-> 0, results |-> EmptyResults]
EmptyLog == [hash_calls |-> <<>>, hash_errors |-> {}, stat_errors |-> {},
             save_errors |-> {}]
NoPrior == [exists |-> FALSE, keys |-> {}]
NoHist == [writer |-> "none", touched |-> {}, prev |-> "none"]

\* PreservGUI.__init__ with no archive_path in the config: no folder chosen,
\* both buttons enabled, no worker thread
NoGui == [folder |-> NoPath, generate_btn |-> "normal", verify_btn |-> "normal",
          threads |-> <<>>]

\* the manifest file as a call finds it
Prior(mf) == [exists |-> mf.exists,
              keys |-> {mf.rows[i].file_path : i \in 1..Len(mf.rows)}]

InvalidPath == [NoRet EXCEPT !.message = "Invalid archive path"]
NoManifest == [NoRet EXCEPT !.message = "No manifest found. Generate manifest first."]

\* ------------------------------------------------- building manifest entries
\* mutant: the entry records the time of the run as modified_time
AddEntry_mtime_now(d, root, t, p, statFail, hashFail, now) ==
    LET fi == _get_file_info(root, t, p, statFail, hashFail)
    IN  IF fi.hash # ""
        THEN DictSet(d, p, [checksum |-> fi.hash,
                            size |-> fi.size,
                            modified_time |-> now,
                            date_generated |-> isoformat(now)])
        ELSE d

\* mutant: the entry is inserted without the `if file_hash` test
AddEntry_unchecked(d, root, t, p, statFail, hashFail, now) ==
    LET fi == _get_file_info(root, t, p, statFail, hashFail)
    IN  DictSet(d, p, [checksum |-> fi.hash,
                       size |-> fi.size,
                       modified_time |-> fi.mtime,
                       date_generated |-> isoformat(now)])

\* mutant: inserting an entry re-stamps the entries already in the manifest
AddEntry_restamp(d, root, t, p, statFail, hashFail, now) ==
    LET fi == _get_file_info(root, t, p, statFail, hashFail)
        stamped == [keys |-> d.keys,
                    val |-> [x \in Keys(d) |->
                               [d.val[x] EXCEPT !.date_generated = isoformat(now)]]]
    IN  IF fi.hash # ""
        THEN DictSet(stamped, p, [checksum |-> fi.hash,
                                  size |-> fi.size,
                                  modified_time |-> fi.mtime,
                                  date_generated |-> isoformat(now)])
        ELSE d

\* lines 138-147 and 238-246: hash one file and insert its entry unless the
\* hash is the empty string
AddEntry(d, root, t, p, statFail, hashFail, now) ==
    LET fi == _get_file_info(root, t, p, statFail, hashFail)
    IN  IF fi.hash # ""
        THEN DictSet(d, p, [checksum |-> fi.hash,
                            size |-> fi.size,
                            modified_time |-> fi.mtime,
                            date_generated |-> isoformat(now)])
        ELSE d

\* mutant: the loop ends after its first file
AddEntries_first_only(d, root, t, files, i, statFail, hashFail, now) ==
    IF i > Len(files) THEN d
    ELSE AddEntry(d, root, t, files[i], statFail, hashFail, now)

RECURSIVE AddEntries(_, _, _, _, _, _, _, _)
AddEntries(d, root, t, files, i, statFail, hashFail, now) ==
    IF i > Len(files) THEN d
    ELSE AddEntries(AddEntry(d, root, t, files[i], statFail, hashFail, now),
                    root, t, files, i + 1, statFail, hashFail, now)

\* what _get_file_info logs over a list of files
InfoLog(root, t, files, statFail, hashFail) ==
    LET statErr(p) == ~PathExists(root, t, p) \/ p \in statFail
    IN  [hash_calls |-> SelectSeq(files, LAMBDA p : ~statErr(p)),
         hash_errors |-> {p \in Elems(files) : ~statErr(p) /\ p \in hashFail},
         stat_errors |-> {p \in Elems(files) : statErr(p)},
         save_errors |-> {}]

\* --------------------------------------------------------------- the tree
\* the tree changes between calls; a change that no later call can observe
\* (the clock is at its bound) is not modelled
WriteFile(p, c, m) ==
    /\ clock <= MaxClock
    /\ tree' = [q \in DOMAIN tree \cup {p} |->
                    IF q = p THEN [content |-> c, mtime |-> m] ELSE tree[q]]
    /\ tree' # tree
    /\ call' = NoCall /\ ret' = NoRet
    /\ loaded' = EmptyDict /\ manifest' = EmptyDict /\ log' = EmptyLog
    /\ prior' = NoPrior
    /\ UNCHANGED <<manifest_file, config_file, archive_path, config, clock>>

DeleteFile(p) ==
    /\ clock <= MaxClock
    /\ p \in DOMAIN tree
    /\ tree' = [q \in DOMAIN tree \ {p} |-> tree[q]]
    /\ call' = NoCall /\ ret' = NoRet
    /\ loaded' = EmptyDict /\ manifest' = EmptyDict /\ log' = EmptyLog
    /\ prior' = NoPrior
    /\ UNCHANGED <<manifest_file, config_file, archive_path, config, clock>>

\* ------------------------------------------------------- generate_manifest
\* mutant: processed_files is incremented outside the `if file_hash` test
GenerateResult_counts_all(files, m) ==
    [NoRet EXCEPT !.success = TRUE,
                  !.message = "Manifest generated successfully.",
                  !.total_files = Len(files),
                  !.processed_files = Len(files)]

\* lines 128-129, 147, 156-161: total_files counts the walked files,
\* processed_files the entries inserted
GenerateResult(files, m) ==
    [NoRet EXCEPT !.success = TRUE,
                  !.message = "Manifest generated successfully.",
                  !.total_files = Len(files),
                  !.processed_files = Len(m.keys)]

generate_manifest(arg, statFail, hashFail, writeOk) ==
    LET root == IF arg # NoPath THEN arg ELSE archive_path
        cfg == IF arg # NoPath THEN [config EXCEPT !.archive_path = arg] ELSE config
        files == os_walk(root, tree)
        m == AddEntries(EmptyDict, root, tree, files, 1, statFail, hashFail, clock)
        cfg2 == [cfg EXCEPT !.last_run = isoformat(clock)]
    IN  /\ clock <= MaxClock
        /\ call' = [op |-> "generate", add_new_files |-> FALSE]
        /\ prior' = Prior(manifest_file)
        /\ archive_path' = root
        /\ loaded' = EmptyDict
        /\ UNCHANGED tree
        /\ IF root = NoPath \/ ~RootExists(root)
           THEN /\ ret' = InvalidPath
                /\ config' = cfg
                /\ manifest' = EmptyDict /\ log' = EmptyLog
                /\ UNCHANGED <<manifest_file, config_file, clock>>
           ELSE /\ manifest' = m
                /\ log' = [InfoLog(root, tree, files, statFail, hashFail) EXCEPT
                             !.save_errors = SaveErrors({"manifest", "config"}, writeOk)]
                /\ manifest_file' = _save_manifest(manifest_file, m, writeOk)
                /\ config' = cfg2
                /\ config_file' = _save_config(config_file, cfg2, writeOk)
                /\ clock' = clock + 1
                /\ ret' = GenerateResult(files, m)

\* -------------------------------------------------------- verify_integrity
\* mutant: no metadata shortcut, every present file is re-hashed
Classify_always_hash(root, t, p, info, statFail, hashFail) ==
    IF ~PathExists(root, t, p) THEN "missing"
    ELSE IF p \in statFail THEN "errors"
    ELSE IF _calculate_file_hash(root, t, p, hashFail) = info.checksum
         THEN "ok" ELSE "modified"

\* mutant: changed metadata is reported as modified without re-hashing
Classify_no_rehash(root, t, p, info, statFail, hashFail) ==
    IF ~PathExists(root, t, p) THEN "missing"
    ELSE IF p \in statFail THEN "errors"
    ELSE IF st_size(t[p].content) # info.size \/ t[p].mtime # info.modified_time
         THEN "modified"
         ELSE "ok"

\* mutant: only the modification time is compared, not the size
Classify_mtime_only(root, t, p, info, statFail, hashFail) ==
    IF ~PathExists(root, t, p) THEN "missing"
    ELSE IF p \in statFail THEN "errors"
    ELSE IF t[p].mtime # info.modified_time
         THEN IF _calculate_file_hash(root, t, p, hashFail) = info.checksum
              THEN "ok" ELSE "modified"
         ELSE "ok"

\* lines 190-222: the bucket one manifest key goes to
Classify(root, t, p, info, statFail, hashFail) ==
    IF ~PathExists(root, t, p) THEN "missing"
    ELSE IF p \in statFail THEN "errors"
    ELSE IF st_size(t[p].content) # info.size \/ t[p].mtime # info.modified_time
         THEN IF _calculate_file_hash(root, t, p, hashFail) = info.checksum
              THEN "ok" ELSE "modified"
         ELSE "ok"

\* _calculate_file_hash is called for p in the loop of lines 190-222
Rehashed(root, t, p, info, statFail) ==
    /\ PathExists(root, t, p)
    /\ p \notin statFail
    /\ (st_size(t[p].content) # info.size \/ t[p].mtime # info.modified_time)

\* mutant: every walked file is reported, the manifest is not consulted
NewFiles_unfiltered(root, t, d) == os_walk(root, t)

\* lines 225-232: the walked files that are not manifest keys
NewFiles(root, t, d) ==
    SelectSeq(os_walk(root, t), LAMBDA p : p \notin Keys(d))

\* mutant: new files are adopted whether or not add_new_files is set
Adopt_always(add_new_files, new) == new # <<>>

\* line 235: `if add_new_files and results["new"]`
Adopt(add_new_files, new) == add_new_files /\ new # <<>>

\* mutant: the `continue` after the missing branch is lost, so os.stat runs
\* on the missing file, raises, and the path is recorded in errors as well
RECURSIVE CheckManifest_no_continue(_, _, _, _, _, _, _)
CheckManifest_no_continue(res, root, t, d, i, statFail, hashFail) ==
    IF i > Len(d.keys) THEN res
    ELSE LET p == d.keys[i]
             b == Classify(root, t, p, d.val[p], statFail, hashFail)
             err == [path |-> p, message |-> "stat failed"]
             r == CASE b = "missing"  -> [res EXCEPT !.missing = Append(@, p),
                                                     !.errors = Append(@, err)]
                    [] b = "ok"       -> [res EXCEPT !.ok = Append(@, p)]
                    [] b = "modified" -> [res EXCEPT !.modified = Append(@, p)]
                    [] b = "errors"   -> [res EXCEPT !.errors = Append(@, err)]
         IN  CheckManifest_no_continue(r, root, t, d, i + 1, statFail, hashFail)

RECURSIVE CheckManifest(_, _, _, _, _, _, _)
CheckManifest(res, root, t, d, i, statFail, hashFail) ==
    IF i > Len(d.keys) THEN res
    ELSE LET p == d.keys[i]
             b == Classify(root, t, p, d.val[p], statFail, hashFail)
             r == CASE b = "missing"  -> [res EXCEPT !.missing = Append(@, p)]
                    [] b = "ok"       -> [res EXCEPT !.ok = Append(@, p)]
                    [] b = "modified" -> [res EXCEPT !.modified = Append(@, p)]
                    [] b = "errors"   -> [res EXCEPT !.errors =
                                            Append(@, [path |-> p, message |-> "stat failed"])]
         IN  CheckManifest(r, root, t, d, i + 1, statFail, hashFail)

\* mutant: the test for the manifest file is skipped
ManifestFound_skipped(mf) == TRUE

\* line 175: os.path.exists(self.manifest_file)
ManifestFound(mf) == mf.exists

\* d is the dict _load_manifest returns at line 180
verify_integrity(arg, add_new_files, statFail, hashFail, writeOk) ==
    \E d \in {_load_manifest(manifest_file)} :
    LET root == IF arg # NoPath THEN arg ELSE archive_path
        cfg == IF arg # NoPath THEN [config EXCEPT !.archive_path = arg] ELSE config
        checked == CheckManifest(EmptyResults, root, tree, d, 1, statFail, hashFail)
        new == NewFiles(root, tree, d)
        results == [checked EXCEPT !.new = new]
        adopt == Adopt(add_new_files, new)
        \* the loop of lines 190-222 stats only manifest keys, the adoption
        \* only new paths
        m == IF adopt
             THEN AddEntries(d, root, tree, new, 1, statFail, hashFail, clock)
             ELSE d
        rehashed == SelectSeq(d.keys, LAMBDA p : Rehashed(root, tree, p, d.val[p], statFail))
        alog == IF adopt THEN InfoLog(root, tree, new, statFail, hashFail) ELSE EmptyLog
        cfg2 == [cfg EXCEPT !.last_run = isoformat(clock)]
    IN  /\ clock <= MaxClock
        /\ call' = [op |-> "verify", add_new_files |-> add_new_files]
        /\ prior' = Prior(manifest_file)
        /\ archive_path' = root
        /\ UNCHANGED tree
        /\ IF root = NoPath \/ ~RootExists(root)
           THEN /\ ret' = InvalidPath
                /\ config' = cfg
                /\ loaded' = EmptyDict /\ manifest' = EmptyDict /\ log' = EmptyLog
                /\ UNCHANGED <<manifest_file, config_file, clock>>
           ELSE IF ~ManifestFound(manifest_file)
           THEN /\ ret' = NoManifest
                /\ config' = cfg
                /\ loaded' = EmptyDict /\ manifest' = EmptyDict /\ log' = EmptyLog
                /\ UNCHANGED <<manifest_file, config_file, clock>>
           ELSE /\ loaded' = d
                /\ manifest' = m
                /\ log' = [hash_calls |-> rehashed \o alog.hash_calls,
                           hash_errors |-> {p \in Elems(rehashed) : p \in hashFail}
                                           \cup alog.hash_errors,
                           stat_errors |-> {e.path : e \in Elems(checked.errors)}
                                           \cup alog.stat_errors,
                           save_errors |-> SaveErrors(
                               IF adopt THEN {"manifest", "config"} ELSE {"config"},
                               writeOk)]
                /\ manifest_file' = IF adopt
                                    THEN _save_manifest(manifest_file, m, writeOk)
                                    ELSE manifest_file
                /\ config' = cfg2
                /\ config_file' = _save_config(config_file, cfg2, writeOk)
                /\ clock' = clock + 1
                /\ ret' = [NoRet EXCEPT
                             !.success = TRUE,
                             !.message = "Integrity check complete.",
                             !.results = results]

\* ------------------------------------------- a write that does not finish
\* where the text written last can end: after a whole row, or inside a row
\* after its modified_time field
Cuts == {"row", "modified_time"}

\* the row DictReader reads from a line that was cut
TornRow(row, cut) ==
    CASE cut = "modified_time" -> [row EXCEPT !.date_generated = restval]

\* _save_manifest stopped while writing: open(..., 'w') has truncated the
\* file, k rows are complete and the next one may be cut
_save_manifest_partial(mf, d, k, cut) ==
    LET full == _save_manifest(mf, d, TRUE).rows
    IN  [exists |-> TRUE,
         rows |-> SubSeq(full, 1, k) \o
                  (IF cut # "row" /\ k < Len(full)
                   THEN <<TornRow(full[k + 1], cut)>>
                   ELSE <<>>)]

\* __init__ of the next process: _load_config reads config.json
_load_config(cf) == IF cf.exists THEN cf.data ELSE DefaultConfig

\* the process dies inside _save_manifest of generate_manifest (line 150);
\* the next process starts from the files
generate_crash(arg, k, cut) ==
    LET files == os_walk(arg, tree)
        m == AddEntries(EmptyDict, arg, tree, files, 1, {}, {}, clock)
    IN  /\ clock <= MaxClock
        /\ arg # NoPath /\ RootExists(arg)
        /\ k \in 0..Len(m.keys)
        /\ (k = Len(m.keys) => cut = "row")
        /\ call' = [op |-> "crash", add_new_files |-> FALSE]
        /\ prior' = Prior(manifest_file)
        /\ loaded' = EmptyDict
        /\ manifest' = m
        /\ manifest_file' = _save_manifest_partial(manifest_file, m, k, cut)
        /\ clock' = clock + 1
        /\ ret' = NoRet /\ log' = EmptyLog
        /\ archive_path' = NoPath
        /\ config' = _load_config(config_file)
        /\ UNCHANGED <<tree, config_file>>

\* the process dies inside _save_manifest of an adopting verify_integrity
\* (line 249)
verify_crash(arg, k, cut) ==
    \E d \in {_load_manifest(manifest_file)} :
    LET new == NewFiles(arg, tree, d)
        m == AddEntries(d, arg, tree, new, 1, {}, {}, clock)
    IN  /\ clock <= MaxClock
        /\ arg # NoPath /\ RootExists(arg)
        /\ ManifestFound(manifest_file)
        /\ Adopt(TRUE, new)
        /\ k \in 0..Len(m.keys)
        /\ (k = Len(m.keys) => cut = "row")
        /\ call' = [op |-> "crash", add_new_files |-> TRUE]
        /\ prior' = Prior(manifest_file)
        /\ loaded' = d
        /\ manifest' = m
        /\ manifest_file' = _save_manifest_partial(manifest_file, m, k, cut)
        /\ clock' = clock + 1
        /\ ret' = NoRet /\ log' = EmptyLog
        /\ archive_path' = NoPath
        /\ config' = _load_config(config_file)
        /\ UNCHANGED <<tree, config_file>>

\* ------------------------------------------------- an interrupted pass
\* mutant: the manifest is saved after every file of the loop
generate_interrupted_saving(arg, j) ==
    LET files == os_walk(arg, tree)
        m == AddEntries(EmptyDict, arg, tree, SubSeq(files, 1, j), 1, {}, {}, clock)
    IN  /\ clock <= MaxClock
        /\ arg # NoPath /\ RootExists(arg)
        /\ j \in 0..(Len(files) - 1)
        /\ call' = [op |-> "interrupted", add_new_files |-> FALSE]
        /\ prior' = Prior(manifest_file)
        /\ loaded' = EmptyDict
        /\ manifest' = m
        /\ ret' = NoRet /\ log' = EmptyLog
        /\ archive_path' = NoPath
        /\ config' = _load_config(config_file)
        /\ manifest_file' = IF j > 0
                            THEN _save_manifest(manifest_file, m, TRUE)
                            ELSE manifest_file
        /\ UNCHANGED <<tree, config_file, clock>>

\* generate_manifest is stopped (KeyboardInterrupt, kill) inside the loop of
\* lines 131-147 after j of the walked files: _save_manifest (line 150) and
\* _save_config (line 154) are not reached, the process ends
generate_interrupted(arg, j) ==
    LET files == os_walk(arg, tree)
        m == AddEntries(EmptyDict, arg, tree, SubSeq(files, 1, j), 1, {}, {}, clock)
    IN  /\ clock <= MaxClock
        /\ arg # NoPath /\ RootExists(arg)
        /\ j \in 0..(Len(files) - 1)
        /\ call' = [op |-> "interrupted", add_new_files |-> FALSE]
        /\ prior' = Prior(manifest_file)
        /\ loaded' = EmptyDict
        /\ manifest' = m
        /\ ret' = NoRet /\ log' = EmptyLog
        /\ archive_path' = NoPath
        /\ config' = _load_config(config_file)
        /\ UNCHANGED <<tree, manifest_file, config_file, clock>>

\* an adopting verify_integrity is stopped inside the loop of lines 236-247
\* after j of the new files (j = 0: anywhere before the first adoption)
verify_interrupted(arg, j) ==
    \E d \in {_load_manifest(manifest_file)} :
    LET new == NewFiles(arg, tree, d)
        m == AddEntries(d, arg, tree, SubSeq(new, 1, j), 1, {}, {}, clock)
    IN  /\ clock <= MaxClock
        /\ arg # NoPath /\ RootExists(arg)
        /\ ManifestFound(manifest_file)
        /\ j \in 0..(Len(new) - 1)
        /\ call' = [op |-> "interrupted", add_new_files |-> TRUE]
        /\ prior' = Prior(manifest_file)
        /\ loaded' = d
        /\ manifest' = m
        /\ ret' = NoRet /\ log' = EmptyLog
        /\ archive_path' = NoPath
        /\ config' = _load_config(config_file)
        /\ UNCHANGED <<tree, manifest_file, config_file, clock>>

\* ------------------------------------------------------ get_manifest_stats
\* the time stamps isoformat can render with one digit
Stamps == 1..9

\* the logical time a date_generated text was taken at; isoformat texts
\* compare as strings in the order of their stamps, the empty text is less
\* than each of them
StampOf(s) == IF s = "" THEN 0 ELSE CHOOSE t \in Stamps : isoformat(t) = s

\* sum(info['size'] for info in manifest.values())
RECURSIVE SumSizes(_, _)
SumSizes(d, i) ==
    IF i > Len(d.keys) THEN 0
    ELSE d.val[d.keys[i]].size + SumSizes(d, i + 1)

\* max(...) compares None with another value: TypeError
MaxRaises(d) ==
    /\ Len(d.keys) >= 2
    /\ \E p \in Keys(d) : d.val[p].date_generated = restval

\* max(info['date_generated'] for info in manifest.values()); one value is
\* returned without a comparison
MaxDate(d) ==
    IF Len(d.keys) = 1 THEN d.val[d.keys[1]].date_generated
    ELSE CHOOSE s \in {d.val[p].date_generated : p \in Keys(d)} :
            \A p \in Keys(d) : StampOf(d.val[p].date_generated) <= StampOf(s)

\* round(total_size / (1024 * 1024), 2), in hundredths
SizeMb(n) == (n * 200 + 1048576) \div 2097152

NoStats == [exists |-> FALSE, file_count |-> 0, total_size |-> 0,
            total_size_mb |-> 0, last_generated |-> "None", raised |-> FALSE]

\* the dict get_manifest_stats returns; raised: the call raises instead
ManifestStats(mf) ==
    LET d == _load_manifest(mf)
    IN  IF ~mf.exists THEN NoStats
        ELSE IF MaxRaises(d) THEN [NoStats EXCEPT !.raised = TRUE]
        ELSE [exists |-> TRUE,
              file_count |-> Len(d.keys),
              total_size |-> SumSizes(d, 1),
              total_size_mb |-> SizeMb(SumSizes(d, 1)),
              last_generated |-> IF d.keys # <<>> THEN MaxDate(d) ELSE "None",
              raised |-> FALSE]

get_manifest_stats ==
    /\ call' = [op |-> "stats", add_new_files |-> FALSE]
    /\ ret' = ManifestStats(manifest_file)
    /\ loaded' = _load_manifest(manifest_file)
    /\ manifest' = loaded'
    /\ log' = EmptyLog
    /\ prior' = Prior(manifest_file)
    /\ UNCHANGED <<tree, manifest_file, config_file, archive_path, config, clock>>

\* ------------------------------------------------------------ specification
Init ==
    /\ tree = [q \in {} |-> [content |-> "x", mtime |-> 1]]
    /\ manifest_file = [exists |-> FALSE, rows |-> <<>>]
    /\ config_file = [exists |-> FALSE, data |-> DefaultConfig]
    /\ archive_path = NoPath
    /\ config = DefaultConfig
    /\ clock = 1
    /\ call = NoCall
    /\ ret = NoRet
    /\ loaded = EmptyDict
    /\ manifest = EmptyDict
    /\ log = EmptyLog
    /\ prior = NoPrior
    /\ hist = NoHist
    /\ gui = NoGui

\* the paths whose stat or read can fail in a call: files of the directory
\* the call works on
Failable(arg) ==
    IF (IF arg # NoPath THEN arg ELSE archive_path) = ArchiveDir
    THEN DOMAIN tree ELSE {}

\* Spec: the callers (gui.py 289-305, main.py 118-153) pass the archive
\* directory; the store is writable: every open(..., 'w') succeeds
CallArgs == {ArchiveDir}

Generate ==
    \E arg \in CallArgs :
    \E statFail \in SUBSET Failable(arg) :
    \E hashFail \in SUBSET (Failable(arg) \ statFail) :
        generate_manifest(arg, statFail, hashFail, TRUE) /\ UNCHANGED <<hist, gui>>

Verify ==
    \E arg \in CallArgs, add \in BOOLEAN :
    \E statFail \in SUBSET Failable(arg) :
    \E hashFail \in SUBSET (Failable(arg) \ statFail) :
        verify_integrity(arg, add, statFail, hashFail, TRUE) /\ UNCHANGED <<hist, gui>>

Write ==
    \E p \in Paths, c \in Contents, m \in Mtimes :
        WriteFile(p, c, m) /\ UNCHANGED <<hist, gui>>

Delete == \E p \in Paths : DeleteFile(p) /\ UNCHANGED <<hist, gui>>

Next == Generate \/ Verify \/ Write \/ Delete

Spec == Init /\ [][Next]_vars

\* SpecScenario: runs without stat or read failures, with the history of
\* who wrote manifest.csv last and of the paths changed since
GenerateScn ==
    \E arg \in CallArgs :
        /\ generate_manifest(arg, {}, {}, TRUE)
        /\ hist' = IF ret'.success
                   THEN [writer |-> "generate", touched |-> {}, prev |-> call.op]
                   ELSE [hist EXCEPT !.prev = call.op]
        /\ UNCHANGED gui

VerifyScn ==
    \E arg \in CallArgs, add \in BOOLEAN :
        /\ verify_integrity(arg, add, {}, {}, TRUE)
        /\ hist' = IF ret'.success /\ Adopt(add, ret'.results.new)
                   THEN [writer |-> "adopt", touched |-> {}, prev |-> call.op]
                   ELSE [hist EXCEPT !.prev = call.op]
        /\ UNCHANGED gui

WriteScn ==
    \E p \in Paths, c \in Contents, m \in Mtimes :
        /\ WriteFile(p, c, m)
        /\ hist' = [hist EXCEPT !.touched = @ \cup {p}, !.prev = "none"]
        /\ UNCHANGED gui

DeleteScn ==
    \E p \in Paths :
        /\ DeleteFile(p)
        /\ hist' = [hist EXCEPT !.touched = @ \cup {p}, !.prev = "none"]
        /\ UNCHANGED gui

NextScn == GenerateScn \/ VerifyScn \/ WriteScn \/ DeleteScn

SpecScenario == Init /\ [][NextScn]_vars

\* SpecRoots: the caller passes any path as the archive root: nothing, the
\* directory, a regular file, a path that does not exist
GenerateAt ==
    \E arg \in RootArgs :
        generate_manifest(arg, {}, {}, TRUE) /\ UNCHANGED <<hist, gui>>

VerifyAt ==
    \E arg \in RootArgs, add \in BOOLEAN :
        verify_integrity(arg, add, {}, {}, TRUE) /\ UNCHANGED <<hist, gui>>

NextRoots == GenerateAt \/ VerifyAt \/ Write \/ Delete

SpecRoots == Init /\ [][NextRoots]_vars

\* SpecPersist: the directory of manifest.csv and config.json may refuse
\* writes: every open(..., 'w') of a call raises, or none does
GenerateIO ==
    \E arg \in CallArgs, writeOk \in BOOLEAN :
        generate_manifest(arg, {}, {}, writeOk) /\ UNCHANGED <<hist, gui>>

VerifyIO ==
    \E arg \in CallArgs, add \in BOOLEAN, writeOk \in BOOLEAN :
        verify_integrity(arg, add, {}, {}, writeOk) /\ UNCHANGED <<hist, gui>>

NextPersist == GenerateIO \/ VerifyIO \/ Write \/ Delete

SpecPersist == Init /\ [][NextPersist]_vars

\* SpecCrash: runs without stat, read or open failures in which a call can
\* die inside _save_manifest, and the statistics are read
GenerateCrash ==
    \E arg \in CallArgs, k \in 0..Cardinality(Paths), cut \in Cuts :
        generate_crash(arg, k, cut) /\ UNCHANGED <<hist, gui>>

VerifyCrash ==
    \E arg \in CallArgs, k \in 0..Cardinality(Paths), cut \in Cuts :
        verify_crash(arg, k, cut) /\ UNCHANGED <<hist, gui>>

GenerateInterrupted ==
    \E arg \in CallArgs, j \in 0..Cardinality(Paths) :
        generate_interrupted(arg, j) /\ UNCHANGED <<hist, gui>>

VerifyInterrupted ==
    \E arg \in CallArgs, j \in 0..Cardinality(Paths) :
        verify_interrupted(arg, j) /\ UNCHANGED <<hist, gui>>

GenerateRun ==
    \E arg \in CallArgs :
        generate_manifest(arg, {}, {}, TRUE) /\ UNCHANGED <<hist, gui>>

VerifyRun ==
    \E arg \in CallArgs, add \in BOOLEAN :
        verify_integrity(arg, add, {}, {}, TRUE) /\ UNCHANGED <<hist, gui>>

Stats == get_manifest_stats /\ UNCHANGED <<hist, gui>>

NextCrash ==
    \/ GenerateRun \/ VerifyRun \/ Write \/ Delete
    \/ GenerateCrash \/ VerifyCrash
    \/ Stats

SpecCrash == Init /\ [][NextCrash]_vars

\* SpecInterrupt: runs without stat, read or open failures in which a call
\* can be stopped inside its loop
NextInterrupt ==
    \/ GenerateRun \/ VerifyRun \/ Write \/ Delete
    \/ GenerateInterrupted \/ VerifyInterrupted

SpecInterrupt == Init /\ [][NextInterrupt]_vars

\* SpecStore: _load_manifest and _save_manifest as functions of their input:
\* a manifest.csv of up to MaxRows rows whose numeric fields may not parse,
\* and a manifest dict of well-formed entries to save
StoreRows ==
    [file_path : Paths,
     checksum : {sha256("x")},
     size : {"1", "x"},
     modified_time : {"1.0", "x"},
     date_generated : {isoformat(1)}]

StoreFiles ==
    {[exists |-> FALSE, rows |-> <<>>]} \cup
    {[exists |-> TRUE, rows |-> r] :
        r \in UNION {[1..k -> StoreRows] : k \in 0..MaxRows}}

StoreEntries ==
    [checksum : {sha256("x")},
     size : {0, 2},
     modified_time : Mtimes,
     date_generated : {isoformat(1)}]

\* the key orders of a dict over Paths
KeySeqs ==
    {ks \in UNION {[1..k -> Paths] : k \in 0..Cardinality(Paths)} :
        \A i, j \in 1..Len(ks) : i # j => ks[i] # ks[j]}

StoreDicts ==
    UNION {{[keys |-> ks, val |-> v] : v \in [Elems(ks) -> StoreEntries]} :
              ks \in KeySeqs}

InitStore ==
    /\ tree = [q \in {} |-> [content |-> "x", mtime |-> 1]]
    /\ manifest_file \in StoreFiles
    /\ manifest \in StoreDicts
    /\ (manifest = EmptyDict \/ Len(manifest_file.rows) <= 1)
    /\ config_file = [exists |-> FALSE, data |-> DefaultConfig]
    /\ archive_path = NoPath
    /\ config = DefaultConfig
    /\ clock = 1
    /\ call = NoCall
    /\ ret = NoRet
    /\ loaded = EmptyDict
    /\ log = EmptyLog
    /\ prior = NoPrior
    /\ hist = NoHist
    /\ gui = NoGui

\* self._save_manifest(manifest) followed by self._load_manifest()
SaveThenLoad ==
    /\ call' = [op |-> "save_load", add_new_files |-> FALSE]
    /\ prior' = Prior(manifest_file)
    /\ manifest_file' = _save_manifest(manifest_file, manifest, TRUE)
    /\ loaded' = _load_manifest(manifest_file')
    /\ ret' = NoRet /\ log' = EmptyLog
    /\ UNCHANGED <<tree, config_file, archive_path, config, clock, manifest, hist, gui>>

NextStore == SaveThenLoad \/ Stats

SpecStore == InitStore /\ [][NextStore]_vars

\* SpecAdopt: runs in which reads can fail during verify_integrity (os.stat
\* never fails), with the history of SpecScenario; the checker is constructed
\* one tick earlier, so that a generation, an adopting verification and one
\* more verification fit below the bound
InitAdopt ==
    /\ tree = [q \in {} |-> [content |-> "x", mtime |-> 1]]
    /\ manifest_file = [exists |-> FALSE, rows |-> <<>>]
    /\ config_file = [exists |-> FALSE, data |-> DefaultConfig]
    /\ archive_path = NoPath
    /\ config = DefaultConfig
    /\ clock = 0
    /\ call = NoCall
    /\ ret = NoRet
    /\ loaded = EmptyDict
    /\ manifest = EmptyDict
    /\ log = EmptyLog
    /\ prior = NoPrior
    /\ hist = NoHist
    /\ gui = NoGui

VerifyAdopt ==
    \E arg \in CallArgs, add \in BOOLEAN :
    \E hashFail \in SUBSET Failable(arg) :
        /\ verify_integrity(arg, add, {}, hashFail, TRUE)
        /\ hist' = IF ret'.success /\ Adopt(add, ret'.results.new)
                   THEN [writer |-> "adopt", touched |-> {}, prev |-> call.op]
                   ELSE [hist EXCEPT !.prev = call.op]
        /\ UNCHANGED gui

NextAdopt == GenerateScn \/ VerifyAdopt \/ WriteScn \/ DeleteScn

SpecAdopt == InitAdopt /\ [][NextAdopt]_vars

\* ------------------------------------------------------------------ the GUI
\* PreservGUI (src/gui.py).  The button handlers run on the main thread; each
\* worker thread runs run_operation, whose steps interleave with the events
\* of the main loop.  pc of a worker: "started" (thread.start() done),
\* "disabled" (buttons disabled), "running" (inside operation()), "returned"
\* (operation() returned), "done" (buttons enabled again).
SetPc(i, pc) == [gui EXCEPT !.threads[i].pc = pc]

\* select_archive_folder: the dialog returns the archive directory
select_archive_folder ==
    /\ gui' = [gui EXCEPT !.folder = ArchiveDir]
    /\ archive_path' = ArchiveDir
    /\ UNCHANGED <<tree, manifest_file, config_file, config, clock, call, ret,
                   loaded, manifest, log, prior, hist>>

\* run_with_progress: lines 284-285 create and start the worker thread and
\* return to the main loop; nothing else happens on the main thread
run_with_progress(op) ==
    /\ Len(gui.threads) < MaxThreads
    /\ gui' = [gui EXCEPT !.threads = Append(@, [op |-> op, pc |-> "started"])]
    /\ UNCHANGED <<tree, manifest_file, config_file, archive_path, config, clock,
                   call, ret, loaded, manifest, log, prior, hist>>

\* PreservGUI.generate_manifest, the command of generate_btn: a disabled
\* button does not invoke its command; with no folder chosen a message box
\* is shown and nothing changes
click_generate ==
    /\ gui.generate_btn = "normal"
    /\ gui.folder # NoPath
    /\ run_with_progress("generate")

\* PreservGUI.verify_integrity, the command of verify_btn
click_verify ==
    /\ gui.verify_btn = "normal"
    /\ gui.folder # NoPath
    /\ run_with_progress("verify")

\* run_operation, lines 250-256: the worker disables both buttons
disable_buttons(i) ==
    /\ gui.threads[i].pc = "started"
    /\ gui' = [SetPc(i, "disabled") EXCEPT !.generate_btn = "disabled",
                                           !.verify_btn = "disabled"]
    /\ UNCHANGED <<tree, manifest_file, config_file, archive_path, config, clock,
                   call, ret, loaded, manifest, log, prior, hist>>

\* run_operation, line 259: the worker enters operation()
call_operation(i) ==
    /\ gui.threads[i].pc = "disabled"
    /\ gui' = SetPc(i, "running")
    /\ UNCHANGED <<tree, manifest_file, config_file, archive_path, config, clock,
                   call, ret, loaded, manifest, log, prior, hist>>

\* a worker inside generate_manifest is inside _save_manifest while another
\* worker is inside its operation: manifest.csv holds k of the rows
save_in_progress(i, k) ==
    LET files == os_walk(gui.folder, tree)
        m == AddEntries(EmptyDict, gui.folder, tree, files, 1, {}, {}, clock)
    IN  /\ gui.threads[i].pc = "running"
        /\ gui.threads[i].op = "generate"
        /\ \E j \in 1..Len(gui.threads) : j # i /\ gui.threads[j].pc = "running"
        /\ k < Len(m.keys)
        /\ manifest_file' = _save_manifest_partial(manifest_file, m, k, "row")
        /\ UNCHANGED <<tree, config_file, archive_path, config, clock, call, ret,
                       loaded, manifest, log, prior, hist, gui>>

\* run_operation, lines 259-272: operation() returns; its effect on the
\* checker and the files is that of the call
return_operation(i) ==
    /\ gui.threads[i].pc = "running"
    /\ gui' = SetPc(i, "returned")
    /\ IF gui.threads[i].op = "generate"
       THEN generate_manifest(gui.folder, {}, {}, TRUE)
       ELSE verify_integrity(gui.folder, FALSE, {}, {}, TRUE)
    /\ UNCHANGED hist

\* run_operation, lines 277-281: the finally clause enables both buttons
enable_buttons(i) ==
    /\ gui.threads[i].pc = "returned"
    /\ gui' = [SetPc(i, "done") EXCEPT !.generate_btn = "normal",
                                       !.verify_btn = "normal"]
    /\ UNCHANGED <<tree, manifest_file, config_file, archive_path, config, clock,
                   call, ret, loaded, manifest, log, prior, hist>>

\* SpecGui: the user chooses the folder and clicks the buttons while the
\* workers run
SelectFolder == select_archive_folder

ClickGenerate == click_generate

ClickVerify == click_verify

DisableButtons == \E i \in 1..Len(gui.threads) : disable_buttons(i)

CallOperation == \E i \in 1..Len(gui.threads) : call_operation(i)

SaveInProgress ==
    \E i \in 1..Len(gui.threads), k \in 0..Cardinality(Paths) :
        save_in_progress(i, k)

ReturnOperation == \E i \in 1..Len(gui.threads) : return_operation(i)

EnableButtons == \E i \in 1..Len(gui.threads) : enable_buttons(i)

NextGui ==
    \/ SelectFolder \/ ClickGenerate \/ ClickVerify
    \/ DisableButtons \/ CallOperation \/ SaveInProgress
    \/ ReturnOperation \/ EnableButtons
    \/ Write \/ Delete

SpecGui == Init /\ [][NextGui]_vars

\* =================================================================== claims
VerifyDone == call.op = "verify" /\ ret.success
GenerateDone == call.op = "generate" /\ ret.success

\* the persisted manifest as the next load reads it
Persisted == _load_manifest(manifest_file)

Ok == Elems(ret.results.ok)
Modified == Elems(ret.results.modified)
Missing == Elems(ret.results.missing)
New == Elems(ret.results.new)
Errors == {e.path : e \in Elems(ret.results.errors)}

\* number of times path p is listed in a bucket
Occ(s, p) == Cardinality({i \in 1..Len(s) : s[i] = p})
OccErr(s, p) == Cardinality({i \in 1..Len(s) : s[i].path = p})

\* the live metadata of p equals what the loaded manifest recorded
SameMeta(p) ==
    /\ st_size(tree[p].content) = loaded.val[p].size
    /\ tree[p].mtime = loaded.val[p].modified_time

\* the live content of p has the digest the loaded manifest recorded
SameDigest(p) == sha256(tree[p].content) = loaded.val[p].checksum

\* C1: after a successful verify_integrity every key of the loaded manifest
\* is listed exactly once over the buckets ok, modified, missing and errors.
C1_ExactlyOneBucket ==
    VerifyDone =>
        \A p \in Keys(loaded) :
            Occ(ret.results.ok, p) + Occ(ret.results.modified, p)
              + Occ(ret.results.missing, p) + OccErr(ret.results.errors, p) = 1

C1_Witness ==
    /\ VerifyDone
    /\ Cardinality(Keys(loaded)) = 2
    /\ ret.results.missing # <<>>
    /\ ret.results.errors # <<>>

\* C2: after a successful verify_integrity a path is in new exactly when it
\* is a file of the live tree that is not a key of the loaded manifest; no
\* path is in both new and missing.
C2_NewIffUnknownLiveFile ==
    VerifyDone =>
        /\ \A p \in Paths : p \in New <=> (p \in DOMAIN tree /\ p \notin Keys(loaded))
        /\ New \cap Missing = {}

C2_Witness ==
    /\ VerifyDone
    /\ ret.results.new # <<>>
    /\ ret.results.missing # <<>>

\* C3: a stat or read failure on a manifest-known path during verify_integrity
\* puts the path in errors and in none of ok, modified, missing, new (a path
\* whose metadata changed and whose digest cannot be computed is in errors,
\* not in modified).
C3_IOFailureGoesToErrors ==
    VerifyDone =>
        \A p \in Keys(loaded) :
            p \in (log.stat_errors \cup log.hash_errors) =>
                /\ p \in Errors
                /\ p \notin Ok \cup Modified \cup Missing \cup New

\* C4: a manifest-known path that is present, whose stat returns the recorded
\* size and modification time, is classified ok and is not hashed, whatever
\* its content is now.
C4_MetadataShortcut ==
    VerifyDone =>
        \A p \in Keys(loaded) :
            (p \in DOMAIN tree /\ p \notin log.stat_errors /\ SameMeta(p)) =>
                /\ p \in Ok
                /\ p \notin Modified
                /\ p \notin Elems(log.hash_calls)

C4_Witness ==
    /\ VerifyDone
    /\ \E p \in Keys(loaded) :
          /\ p \in DOMAIN tree /\ p \notin log.stat_errors
          /\ SameMeta(p) /\ ~SameDigest(p)
          /\ p \in Ok

\* C5: a manifest-known path whose size or modification time differs from
\* the record but whose recomputed digest equals the recorded checksum is
\* classified ok and not modified.
C5_MetadataDriftSameContent ==
    VerifyDone =>
        \A p \in Keys(loaded) :
            (/\ p \in DOMAIN tree /\ p \notin log.stat_errors
             /\ ~SameMeta(p)
             /\ p \notin log.hash_errors /\ SameDigest(p)) =>
                /\ p \in Ok
                /\ p \notin Modified

C5_Witness ==
    /\ VerifyDone
    /\ \E p \in Keys(loaded) :
          /\ p \in DOMAIN tree /\ ~SameMeta(p) /\ SameDigest(p)
          /\ p \in Elems(log.hash_calls) /\ p \notin log.hash_errors
          /\ p \in Ok

\* C6: generate_manifest, then one file overwritten with different content
\* so that its size or modification time changes, then verify_integrity:
\* modified lists exactly that path and every other manifest path is ok.
C6_OverwriteDetected ==
    [][\A p \in Paths :
          (/\ hist.writer = "generate" /\ hist.touched = {p}
           /\ call'.op = "verify" /\ ret'.success
           /\ p \in Keys(loaded') /\ p \in DOMAIN tree
           /\ sha256(tree[p].content) # loaded'.val[p].checksum
           /\ (\/ st_size(tree[p].content) # loaded'.val[p].size
               \/ tree[p].mtime # loaded'.val[p].modified_time)) =>
                /\ ret'.results.modified = <<p>>
                /\ \A q \in Keys(loaded') \ {p} : q \in Elems(ret'.results.ok)]_vars

C6_Witness ==
    /\ VerifyDone
    /\ hist.writer = "generate"
    /\ \E p \in Keys(loaded) :
          /\ hist.touched = {p}
          /\ p \in DOMAIN tree /\ ~SameDigest(p) /\ ~SameMeta(p)
          /\ ret.results.modified = <<p>>
          /\ ret.results.ok # <<>>

\* C7: after a successful generate_manifest the keys of the persisted
\* manifest are exactly the live files whose digest was computed, and every
\* entry is one of this generation (no entry of the prior manifest survives).
C7_GenerateReplaces ==
    GenerateDone =>
        /\ Keys(Persisted) = Elems(log.hash_calls) \ log.hash_errors
        /\ Keys(Persisted) \subseteq DOMAIN tree
        /\ \A p \in Keys(Persisted) :
              Persisted.val[p].date_generated = config.last_run

C7_Witness ==
    /\ GenerateDone
    /\ \E p \in prior.keys : p \notin Keys(Persisted)
    /\ \E p \in prior.keys : p \in Keys(Persisted)
    /\ log.hash_errors # {}

\* C8: a verify_integrity call leaves manifest.csv as it was unless
\* add_new_files is true and new is not empty.
C8_PlainVerifyReadOnly ==
    [][(/\ call'.op = "verify"
        /\ ~(call'.add_new_files /\ ret'.success /\ ret'.results.new # <<>>)) =>
            manifest_file' = manifest_file]_vars

C8_Witness ==
    /\ VerifyDone
    /\ call.add_new_files
    /\ ret.results.new = <<>>
    /\ ret.results.missing # <<>>
    /\ manifest_file.rows # <<>>

\* C9: an adoptive verify_integrity adds an entry for each new path whose
\* digest succeeds and leaves every entry it loaded in the persisted
\* manifest with the same checksum, size, modified_time and date_generated.
C9_AdoptionOnlyAdds ==
    (VerifyDone /\ call.add_new_files /\ ret.results.new # <<>>) =>
        /\ \A p \in Keys(loaded) :
              p \in Keys(Persisted) /\ Persisted.val[p] = loaded.val[p]
        /\ \A p \in New :
              (p \in Elems(log.hash_calls) /\ p \notin log.hash_errors) =>
                  /\ p \in Keys(Persisted)
                  /\ Persisted.val[p].checksum = sha256(tree[p].content)
                  /\ Persisted.val[p].size = st_size(tree[p].content)
                  /\ Persisted.val[p].modified_time = tree[p].mtime

C9_Witness ==
    /\ VerifyDone /\ call.add_new_files
    /\ ret.results.missing # <<>>
    /\ \E p \in New : p \in Keys(Persisted)
    /\ \E p \in Missing :
          /\ p \in Keys(Persisted)
          /\ Persisted.val[p].date_generated # config.last_run

\* C10: no row of the persisted manifest ever has an empty checksum.
C10_NoEmptyChecksum ==
    \A i \in 1..Len(manifest_file.rows) : manifest_file.rows[i].checksum # ""

C10_Witness ==
    /\ VerifyDone /\ call.add_new_files
    /\ \E p \in New : p \in log.hash_errors \cup log.stat_errors
    /\ manifest_file.rows # <<>>

\* C11: verify_integrity on an existing archive root while manifest.csv does
\* not exist returns success false with no result buckets, before any load
\* or walk, creates no manifest file and leaves config.json as it was, also
\* when add_new_files is set.
C11_NoManifestFails ==
    [][(call'.op = "verify" /\ RootExists(archive_path')
            /\ ~manifest_file.exists)
        => /\ ~ret'.success
           /\ ret'.results = EmptyResults
           /\ loaded' = EmptyDict /\ manifest' = EmptyDict /\ log' = EmptyLog
           /\ manifest_file' = manifest_file
           /\ config_file' = config_file]_vars

C11_Witness ==
    /\ call.op = "verify" /\ call.add_new_files
    /\ RootExists(archive_path)
    /\ ret = NoManifest
    /\ DOMAIN tree # {}
    /\ ~manifest_file.exists

\* C12: generate_manifest and verify_integrity called with an archive root
\* that is missing or is not a directory return success false and do no
\* work: manifest.csv and config.json stay as they were.
C12_InvalidRootFails ==
    [][(call'.op \in {"generate", "verify"} /\ archive_path' # ArchiveDir)
        => /\ ~ret'.success
           /\ manifest_file' = manifest_file
           /\ config_file' = config_file]_vars

\* C13: when writing manifest.csv or config.json fails during
\* generate_manifest or during a verify_integrity that adopts new files, the
\* call returns success false, and what it computed in memory is intact: the
\* manifest built over the walked files, the list of new files.
C13_SaveFailureReported ==
    (/\ log.save_errors # {}
     /\ \/ call.op = "generate"
        \/ call.op = "verify" /\ "manifest" \in log.save_errors)
    => /\ ~ret.success
       /\ call.op = "generate" => Keys(manifest) = Elems(os_walk(archive_path, tree))
       /\ call.op = "verify" => ret.results.new = NewFiles(archive_path, tree, loaded)

\* C14: saving the manifest is atomic with respect to a crash during the
\* write: the next _load_manifest returns the complete old manifest or the
\* complete new one, never part of one.
C14_SaveAtomic ==
    [][call'.op = "crash"
        => _load_manifest(manifest_file')
             \in {_load_manifest(manifest_file), manifest'}]_vars

\* C15: when generate_manifest or an adopting verify_integrity is stopped
\* before its pass over the files is complete, nothing is persisted:
\* manifest.csv (and config.json) hold what they held before the call.
C15_InterruptedPassPersistsNothing ==
    [][call'.op = "interrupted"
        => /\ manifest_file' = manifest_file
           /\ config_file' = config_file]_vars

C15_Witness ==
    /\ call.op = "interrupted"
    /\ manifest.keys # <<>>
    /\ manifest_file.exists
    /\ manifest # Persisted
    /\ Keys(Persisted) = prior.keys

\* the entries of all the rows whose numeric fields parse, bad rows skipped
RECURSIVE WellFormedRows(_, _, _)
WellFormedRows(rows, i, d) ==
    IF i > Len(rows) THEN d
    ELSE WellFormedRows(rows, i + 1,
            IF RowParses(rows[i])
            THEN DictSet(d, rows[i].file_path, ParseRow(rows[i]))
            ELSE d)

\* C16: loading a manifest.csv in which some rows have numeric fields that
\* do not parse never raises and returns exactly the entries of all the
\* well-formed rows, wherever the bad rows stand: the rows after a bad row
\* are loaded too.
C16_BadRowsSkipped ==
    (call.op = "stats" /\ manifest_file.exists)
    => /\ ~ret.raised
       /\ loaded = WellFormedRows(manifest_file.rows, 1, EmptyDict)

\* C19: for a manifest m of well-formed entries, _save_manifest(m) followed
\* by _load_manifest() returns a manifest equal to m.
C19_SaveLoadRoundTrip ==
    call.op = "save_load" => loaded = manifest

C19_Witness ==
    /\ call.op = "save_load"
    /\ Len(manifest.keys) = 2
    /\ \E p, q \in Keys(manifest) :
          /\ manifest.val[p].size # manifest.val[q].size
          /\ manifest.val[p].modified_time # manifest.val[q].modified_time
    /\ prior.exists /\ prior.keys # {}
    /\ loaded = manifest

\* C17: verify_integrity run right after generate_manifest on the unchanged
\* tree, with no file failing, lists every live file in ok and leaves
\* modified, missing, new and errors empty.
C17_VerifyAfterGenerateAllOk ==
    [][(GenerateDone /\ call'.op = "verify" /\ tree' = tree)
        => /\ ret'.success
           /\ Elems(ret'.results.ok) = DOMAIN tree
           /\ Len(ret'.results.ok) = Cardinality(DOMAIN tree)
           /\ ret'.results.modified = <<>>
           /\ ret'.results.missing = <<>>
           /\ ret'.results.new = <<>>
           /\ ret'.results.errors = <<>>]_vars

C17_Witness ==
    /\ VerifyDone /\ hist.prev = "generate"
    /\ Ok = Paths
    /\ \E p, q \in Paths : tree[p].content # tree[q].content
    /\ Modified \cup Missing \cup New \cup Errors = {}

\* C18: generate_manifest run twice in a row on the unchanged tree, with no
\* file failing, persists the same keys with the same checksum, size and
\* modified_time for every key; only date_generated may differ.
C18_RegenerateSameContent ==
    [][(GenerateDone /\ call'.op = "generate" /\ ret'.success /\ tree' = tree)
        => /\ Keys(_load_manifest(manifest_file'))
                = Keys(_load_manifest(manifest_file))
           /\ \A p \in Keys(_load_manifest(manifest_file)) :
                LET old == _load_manifest(manifest_file).val[p]
                    new == _load_manifest(manifest_file').val[p]
                IN  /\ new.checksum = old.checksum
                    /\ new.size = old.size
                    /\ new.modified_time = old.modified_time]_vars

C18_Witness ==
    /\ GenerateDone /\ hist.prev = "generate"
    /\ Keys(Persisted) = Paths
    /\ prior.keys = Paths
    /\ \A p \in Paths : Persisted.val[p].date_generated = isoformat(2)
    /\ \E p \in Paths : Persisted.val[p].modified_time = 1

\* C20: get_manifest_stats never raises; it returns the number of entries of
\* the persisted manifest, the sum of their sizes and the greatest
\* date_generated; for a manifest file without entries the count is 0, the
\* total 0 and last_generated None; without a manifest file exists is false.
C20_StatsOfPersisted ==
    call.op = "stats"
    => /\ ~ret.raised
       /\ ret.exists = manifest_file.exists
       /\ manifest_file.exists =>
            /\ ret.file_count = Cardinality(Keys(Persisted))
            /\ ret.total_size = SumSizes(Persisted, 1)
            /\ Keys(Persisted) = {} => ret.last_generated = restval
            /\ Keys(Persisted) # {} =>
                 /\ \E p \in Keys(Persisted) :
                       Persisted.val[p].date_generated = ret.last_generated
                 /\ Cardinality(Keys(Persisted)) > 1 =>
                       \A p \in Keys(Persisted) :
                           StampOf(Persisted.val[p].date_generated)
                             <= StampOf(ret.last_generated)

\* C21: generate_manifest on the archive directory returns success true; in
\* its result processed_files is the number of entries of the persisted
\* manifest and at most total_files, the number of files found; a file whose
\* digest failed is counted in total_files and not in processed_files.
C21_ProcessedCountsEntries ==
    call.op = "generate"
    => /\ ret.success
       /\ ret.processed_files = Cardinality(Keys(Persisted))
       /\ ret.processed_files <= ret.total_files
       /\ ret.total_files = Cardinality(DOMAIN tree)
       /\ ret.processed_files
            = ret.total_files - Cardinality(log.hash_errors \cup log.stat_errors)
       /\ \A p \in log.hash_errors : p \in DOMAIN tree /\ p \notin Keys(Persisted)

C21_Witness ==
    /\ GenerateDone
    /\ log.hash_errors # {}
    /\ ret.total_files = 2
    /\ ret.processed_files = 1
    /\ Cardinality(Keys(Persisted)) = 1

\* C22: after a verify_integrity with add_new_files that adopted new files,
\* a second verify_integrity on the unchanged tree lists every path that was
\* new and was hashed as ok and not as new; a new path whose digest failed
\* during the adoption was not added and is listed as new again; so new is
\* empty when every new file was hashed.
C22_AdoptedThenOk ==
    [][(/\ call.op = "verify" /\ ret.success
        /\ Adopt(call.add_new_files, ret.results.new)
        /\ call'.op = "verify" /\ tree' = tree)
        => /\ ret'.success
           /\ Elems(ret'.results.new) = {p \in New : p \notin Keys(manifest)}
           /\ \A p \in New :
                /\ p \in Keys(manifest) => p \in Elems(ret'.results.ok)
                /\ p \notin Keys(manifest) =>
                      /\ p \in log.hash_errors
                      /\ p \notin Keys(loaded')]_vars

C22_Witness ==
    /\ VerifyDone
    /\ hist.prev = "verify" /\ hist.writer = "adopt" /\ hist.touched = {}
    /\ \E p \in Ok : loaded.val[p].date_generated = isoformat(clock - 2)
    /\ New # {}
    /\ Modified \cup Missing \cup Errors = {}

\* a worker thread that was started and has not finished
Active(i) == gui.threads[i].pc \in {"started", "disabled", "running", "returned"}

\* C23: in the GUI at most one generate or verify operation is under way at
\* any time: once a button has started an operation, no second worker
\* thread is started before the first has finished, so no two operations
\* run against the shared checker and its files at once.
C23_OneOperationAtATime ==
    /\ Cardinality({i \in 1..Len(gui.threads) : Active(i)}) <= 1
    /\ Cardinality({i \in 1..Len(gui.threads) : gui.threads[i].pc = "running"}) <= 1

====
